---- MODULE Spec2Model ----
(***************************************************************************)
(* The connection handshake of tokio-postgres (proto/handshake.rs): the    *)
(* state machine future `Handshake`, one action per poll_* function.       *)
(* The live state of the tagged union is the record `hs`; its field        *)
(* `state` is the tag and the other fields are the data that state owns.   *)
(* sent, received and trace are history variables of the wire and of the   *)
(* states entered; tls is the TlsMode given to HandshakeFuture::new;       *)
(* queried holds what the stream answered when asked for channel-binding   *)
(* material, for as long as the SCRAM engine built from the answer lives.  *)
(***************************************************************************)
EXTENDS Integers, Sequences, FiniteSets

VARIABLES hs, tls, sent, received, trace, queried

vars == <<hs, tls, sent, received, trace, queried>>

(* ------------------------------ bounds --------------------------------- *)

\* Messages other than the final one that the server sends in ReadingInfo.
MaxInfoMsgs == 3

\* AuthenticationSaslContinue messages the server sends in one exchange.
MaxSaslRounds == 1

\* Caller-supplied startup options.
MaxOptions == 1

(* --------------------------- value domains ----------------------------- *)

\* Rust's Option: None, or Some(x).
None == <<>>

Some(x) == <<x>>

IsSome(o) == o # None

Unwrap(o) == o[1]

\* A string holding an interior NUL byte: the frontend encoders refuse it.
NulString == "nul<0>"

\* Bytes that are not UTF-8: ParameterStatusBody::name()/value() refuse them.
BadUtf8 == "<invalid utf-8>"

TlsModes == {"None", "Prefer", "Require"}

Hosts == {"Tcp", "Unix"}

OptionPairs == {<<"a", "b">>, <<NulString, "b">>}

RECURSIVE SeqsUpTo(_, _)
SeqsUpTo(S, n) ==
    IF n = 0 THEN {<<>>}
    ELSE LET shorter == SeqsUpTo(S, n - 1)
         IN  shorter \cup {Append(s, e) : s \in {t \in shorter : Len(t) = n - 1}, e \in S}

Users == [name : {"u"}, password : {None, Some("p"), Some(NulString)}]

ConnectParamsSet ==
    [host : Hosts, user : {None} \cup {Some(u) : u \in Users},
     database : {None, Some("d")}, options : SeqsUpTo(OptionPairs, MaxOptions)]

(* ---------------------------- backend messages ------------------------- *)

SCRAM_SHA_256 == "SCRAM-SHA-256"

SCRAM_SHA_256_PLUS == "SCRAM-SHA-256-PLUS"

AuthenticationOk == [type |-> "AuthenticationOk"]

AuthenticationCleartextPassword == [type |-> "AuthenticationCleartextPassword"]

AuthenticationMd5Password(salt) == [type |-> "AuthenticationMd5Password", salt |-> salt]

AuthenticationSasl(mechanisms) == [type |-> "AuthenticationSasl", mechanisms |-> mechanisms]

AuthenticationSaslContinue(data) == [type |-> "AuthenticationSaslContinue", data |-> data]

AuthenticationSaslFinal(data) == [type |-> "AuthenticationSaslFinal", data |-> data]

BackendKeyData(process_id, secret_key) ==
    [type |-> "BackendKeyData", process_id |-> process_id, secret_key |-> secret_key]

ParameterStatus(name, value) == [type |-> "ParameterStatus", name |-> name, value |-> value]

ReadyForQuery == [type |-> "ReadyForQuery"]

ErrorResponse(body) == [type |-> "ErrorResponse", body |-> body]

NoticeResponse == [type |-> "NoticeResponse"]

\* The stream ended: Stream::poll yields Ready(None).
EndOfStream == [type |-> "EndOfStream"]

\* Stream::poll yields Err: the read or the decoding of a frame failed.
ReadError == [type |-> "ReadError"]

LegacyAuthTypes ==
    {"AuthenticationKerberosV5", "AuthenticationScmCredential",
     "AuthenticationGss", "AuthenticationSspi"}

ErrorBodies == {"28P01", "53300"}

\* A mechanism name the iterator fails to decode.
BadMechanism == "<undecodable>"

\* The mechanism lists a server may advertise.
MechanismLists ==
    {<<>>, <<"OTHER">>, <<SCRAM_SHA_256>>, <<SCRAM_SHA_256_PLUS>>,
     <<"OTHER", SCRAM_SHA_256, SCRAM_SHA_256_PLUS>>, <<SCRAM_SHA_256, BadMechanism>>}

\* Messages that end a reading state whichever state it is.
ClosingMessages == {EndOfStream, ReadError} \cup {ErrorResponse(b) : b \in ErrorBodies}

AuthMessages ==
    {AuthenticationOk, AuthenticationCleartextPassword, AuthenticationMd5Password("salt")}
    \cup {AuthenticationSasl(m) : m \in MechanismLists}
    \cup {AuthenticationSaslContinue("server-first"), AuthenticationSaslFinal("server-final")}
    \cup {[type |-> t] : t \in LegacyAuthTypes}

InfoMessages ==
    {BackendKeyData(42, 99), BackendKeyData(7, 99),
     ParameterStatus("server_version", "14.2"), ParameterStatus("server_version", "9.6"),
     ParameterStatus("TimeZone", "GMT"), NoticeResponse}

\* ParameterStatus bodies whose name or value does not decode.
MalformedInfoMessages ==
    {ParameterStatus(BadUtf8, "on"), ParameterStatus("TimeZone", BadUtf8)}

\* Every message a reading state may be handed in this model.
BackendMessages ==
    AuthMessages \cup InfoMessages \cup MalformedInfoMessages
    \cup {ReadyForQuery} \cup ClosingMessages

\* The messages ReadingInfo is handed: those of BackendMessages, with one
\* mechanism list standing for all of them.
InfoPhaseMessages ==
    BackendMessages
    \ {AuthenticationSasl(m) : m \in MechanismLists \ {<<SCRAM_SHA_256>>}}

(* ------------------------------- errors -------------------------------- *)

Err(kind, detail) == [kind |-> kind, detail |-> detail]

\* An error of the transport or of the codec, passed on by try_ready!.
io_error == Err("io", "transport")

\* An error of an encoder or decoder of postgres_protocol, passed on by `?`.
encode_error == Err("io", "encoding")

bad_response == Err("bad_response", "the server returned an unexpected response")

disconnected == Err("disconnected", "server disconnected")

missing_password == Err("connect", "a password was requested but not provided")

Failed(error) == [state |-> "Failed", error |-> error]

(* --------------------------- frontend messages ------------------------- *)

HasNul(s) == s = NulString

ssl_request == [type |-> "SslRequest"]

\* frontend::startup_message: the pairs in the order given, or an error when
\* a key or a value cannot be written as a C string.
startup_message(pairs) ==
    IF \E i \in 1..Len(pairs) : HasNul(pairs[i][1]) \/ HasNul(pairs[i][2])
    THEN None
    ELSE Some([type |-> "StartupMessage", parameters |-> pairs])

\* The bytes of a string as given by the caller.
Raw(text) == [kind |-> "raw", text |-> text]

\* authentication::md5_hash: "md5" + hex(md5(hex(md5(password + username)) + salt)),
\* kept symbolic; hexadecimal digits hold no NUL byte.
md5_hash(username, password, salt) ==
    [kind |-> "md5", inner |-> <<password, username>>, salt |-> salt]

password_message(password) ==
    IF password.kind = "raw" /\ HasNul(password.text) THEN None
    ELSE Some([type |-> "PasswordMessage", password |-> password])

sasl_initial_response(mechanism, data) ==
    [type |-> "SaslInitialResponse", mechanism |-> mechanism, data |-> data]

sasl_response(data) == [type |-> "SaslResponse", data |-> data]

(* ------------------------------ the stream ----------------------------- *)

\* The socket as handed over by the transport, and after the TLS upgrade.
PlainStream == [tls |-> FALSE]

TlsStream == [tls |-> TRUE]

(* ----------------------- Start .. SendingStartup ----------------------- *)

\* AfterStart without the TlsMode::None arm.
AfterStart_always_negotiates(st, connected) ==
    IF ~connected THEN Failed(io_error)
    ELSE [state |-> "SendingSsl", future |-> ssl_request, params |-> st.params,
          required |-> (st.tls = "Require")]

\* poll_start, once the connect future is done (connected) or has failed.
AfterStart(st, connected) ==
    IF ~connected THEN Failed(io_error)
    ELSE IF st.tls = "None"
    THEN [state |-> "BuildingStartup", stream |-> PlainStream, params |-> st.params]
    ELSE [state |-> "SendingSsl", future |-> ssl_request, params |-> st.params,
          required |-> (st.tls = "Require")]

\* poll_sending_ssl, once the write of the SSL request is done or has failed.
AfterSendingSsl(st, written) ==
    IF ~written THEN Failed(io_error)
    ELSE [state |-> "ReadingSsl", params |-> st.params, required |-> st.required]

\* AfterReadingSsl with the `if !state.required` guard of the 'N' arm lost.
AfterReadingSsl_falls_back(st, buf) ==
    IF buf = None THEN Failed(io_error)
    ELSE IF Unwrap(buf) = "S"
    THEN IF st.params.host = "Tcp"
         THEN [state |-> "ConnectingTls", params |-> st.params]
         ELSE Failed(Err("tls", "TLS over unix sockets not supported"))
    ELSE IF Unwrap(buf) = "N"
    THEN [state |-> "BuildingStartup", stream |-> PlainStream, params |-> st.params]
    ELSE Failed(bad_response)

\* AfterReadingSsl that hands any host to the connector.
AfterReadingSsl_any_host(st, buf) ==
    IF buf = None THEN Failed(io_error)
    ELSE IF Unwrap(buf) = "S"
    THEN [state |-> "ConnectingTls", params |-> st.params]
    ELSE IF Unwrap(buf) = "N" /\ ~st.required
    THEN [state |-> "BuildingStartup", stream |-> PlainStream, params |-> st.params]
    ELSE IF Unwrap(buf) = "N"
    THEN Failed(Err("tls", "TLS was required but not supported"))
    ELSE Failed(bad_response)

\* AfterReadingSsl that sends the SSL request again on an unknown byte.
AfterReadingSsl_asks_again(st, buf) ==
    IF buf = None THEN Failed(io_error)
    ELSE IF Unwrap(buf) = "S"
    THEN IF st.params.host = "Tcp"
         THEN [state |-> "ConnectingTls", params |-> st.params]
         ELSE Failed(Err("tls", "TLS over unix sockets not supported"))
    ELSE IF Unwrap(buf) = "N" /\ ~st.required
    THEN [state |-> "BuildingStartup", stream |-> PlainStream, params |-> st.params]
    ELSE IF Unwrap(buf) = "N"
    THEN Failed(Err("tls", "TLS was required but not supported"))
    ELSE [state |-> "SendingSsl", future |-> ssl_request, params |-> st.params,
          required |-> st.required]

\* poll_reading_ssl on the byte read; None when the read failed.
AfterReadingSsl(st, buf) ==
    IF buf = None THEN Failed(io_error)
    ELSE IF Unwrap(buf) = "S"
    THEN IF st.params.host = "Tcp"
         THEN [state |-> "ConnectingTls", params |-> st.params]
         ELSE Failed(Err("tls", "TLS over unix sockets not supported"))
    ELSE IF Unwrap(buf) = "N" /\ ~st.required
    THEN [state |-> "BuildingStartup", stream |-> PlainStream, params |-> st.params]
    ELSE IF Unwrap(buf) = "N"
    THEN Failed(Err("tls", "TLS was required but not supported"))
    ELSE Failed(bad_response)

\* AfterConnectingTls that carries on in the clear when the upgrade fails.
AfterConnectingTls_plain_on_failure(st, upgraded) ==
    IF ~upgraded
    THEN [state |-> "BuildingStartup", stream |-> PlainStream, params |-> st.params]
    ELSE [state |-> "BuildingStartup", stream |-> TlsStream, params |-> st.params]

\* poll_connecting_tls, once the connector's future is done or has failed.
AfterConnectingTls(st, upgraded) ==
    IF ~upgraded THEN Failed(Err("tls", "connector"))
    ELSE [state |-> "BuildingStartup", stream |-> TlsStream, params |-> st.params]

\* StartupPairs with the database chained before the user.
StartupPairs_database_first(p, user) ==
    p.options
    \o <<<<"client_encoding", "UTF8">>>>
    \o <<<<"timezone", "GMT">>>>
    \o (IF p.database = None THEN <<>> ELSE <<<<"database", Unwrap(p.database)>>>>)
    \o <<<<"user", user.name>>>>

\* The key/value pairs poll_building_startup chains for the startup message.
StartupPairs(p, user) ==
    p.options
    \o <<<<"client_encoding", "UTF8">>>>
    \o <<<<"timezone", "GMT">>>>
    \o <<<<"user", user.name>>>>
    \o (IF p.database = None THEN <<>> ELSE <<<<"database", Unwrap(p.database)>>>>)

\* AfterBuildingStartup that never gets past building the message.
AfterBuildingStartup_stalls(st) == st

\* poll_building_startup: the startup message is encoded and its send begun.
AfterBuildingStartup(st) ==
    IF st.params.user = None
    THEN Failed(Err("connect", "user missing from connection parameters"))
    ELSE LET user == Unwrap(st.params.user)
             buf == startup_message(StartupPairs(st.params, user))
         IN  IF buf = None THEN Failed(encode_error)
             ELSE [state |-> "SendingStartup", future |-> Unwrap(buf),
                   stream |-> st.stream, user |-> user]

\* poll_sending_startup, once the send is flushed or has failed.
AfterSendingStartup(st, flushed) ==
    IF ~flushed THEN Failed(io_error)
    ELSE [state |-> "ReadingAuth", stream |-> st.stream, user |-> st.user]

(* --------------------------- authentication ---------------------------- *)

\* ChannelBinding of postgres_protocol::authentication::sasl.
ChannelBinding_tls_unique(data) == [tag |-> "tls-unique", data |-> data]

ChannelBinding_tls_server_end_point(data) == [tag |-> "tls-server-end-point", data |-> data]

ChannelBinding_unrequested == [tag |-> "unrequested", data |-> ""]

ChannelBinding_unsupported == [tag |-> "unsupported", data |-> ""]

\* The binding material of the stream: tls_unique() or else tls_server_end_point().
StreamChannelBinding(tls_unique, tls_server_end_point) ==
    IF IsSome(tls_unique) THEN Some(ChannelBinding_tls_unique(Unwrap(tls_unique)))
    ELSE IF IsSome(tls_server_end_point)
    THEN Some(ChannelBinding_tls_server_end_point(Unwrap(tls_server_end_point)))
    ELSE None

\* The loop over body.mechanisms(): None when an entry fails to decode.
ScanMechanisms(mechanisms) ==
    IF \E i \in 1..Len(mechanisms) : mechanisms[i] = BadMechanism THEN None
    ELSE Some([has_scram |-> \E i \in 1..Len(mechanisms) : mechanisms[i] = SCRAM_SHA_256,
               has_scram_plus |->
                   \E i \in 1..Len(mechanisms) : mechanisms[i] = SCRAM_SHA_256_PLUS])

\* SelectMechanism with the two arms of the plain-SCRAM match merged.
SelectMechanism_one_tag(has_scram, has_scram_plus, channel_binding) ==
    IF has_scram_plus
    THEN IF IsSome(channel_binding)
         THEN Some([channel_binding |-> Unwrap(channel_binding),
                    mechanism |-> SCRAM_SHA_256_PLUS])
         ELSE Some([channel_binding |-> ChannelBinding_unsupported,
                    mechanism |-> SCRAM_SHA_256])
    ELSE IF has_scram
    THEN Some([channel_binding |-> ChannelBinding_unsupported, mechanism |-> SCRAM_SHA_256])
    ELSE None

\* The (channel_binding, mechanism) pair poll_reading_auth settles on; None
\* where it returns the "unsupported SASL authentication" error.
SelectMechanism(has_scram, has_scram_plus, channel_binding) ==
    IF has_scram_plus
    THEN IF IsSome(channel_binding)
         THEN Some([channel_binding |-> Unwrap(channel_binding),
                    mechanism |-> SCRAM_SHA_256_PLUS])
         ELSE Some([channel_binding |-> ChannelBinding_unsupported,
                    mechanism |-> SCRAM_SHA_256])
    ELSE IF has_scram
    THEN IF IsSome(channel_binding)
         THEN Some([channel_binding |-> ChannelBinding_unrequested,
                    mechanism |-> SCRAM_SHA_256])
         ELSE Some([channel_binding |-> ChannelBinding_unsupported,
                    mechanism |-> SCRAM_SHA_256])
    ELSE None

\* The SCRAM engine, opaque: what it was built from, the updates it has
\* absorbed and the payload message() returns.
ScramSha256_new(password, channel_binding) ==
    [password |-> password, channel_binding |-> channel_binding, updates |-> 0,
     message |-> "client-first"]

ScramSha256_update(scram) ==
    [scram EXCEPT !.updates = @ + 1, !.message = "client-final"]

\* AuthenticationSaslRequest that looks at the password after the mechanisms.
AuthenticationSaslRequest_selects_first(st, mechanisms, tls_unique, tls_server_end_point, rng_ok) ==
    LET found == ScanMechanisms(mechanisms)
        channel_binding == StreamChannelBinding(tls_unique, tls_server_end_point)
    IN  IF found = None THEN Failed(encode_error)
        ELSE LET chosen == SelectMechanism(Unwrap(found).has_scram,
                                           Unwrap(found).has_scram_plus,
                                           channel_binding)
             IN  IF chosen = None
                 THEN Failed(Err("io", "unsupported SASL authentication"))
                 ELSE IF st.user.password = None THEN Failed(missing_password)
                 ELSE IF ~rng_ok THEN Failed(Err("io", "scram"))
                 ELSE LET scram == ScramSha256_new(Unwrap(st.user.password),
                                                   Unwrap(chosen).channel_binding)
                      IN  [state |-> "SendingSasl",
                           future |-> sasl_initial_response(Unwrap(chosen).mechanism,
                                                            scram.message),
                           stream |-> st.stream, scram |-> scram]

\* The AuthenticationSasl arm of poll_reading_auth.
AuthenticationSaslRequest(st, mechanisms, tls_unique, tls_server_end_point, rng_ok) ==
    IF st.user.password = None THEN Failed(missing_password)
    ELSE LET pass == Unwrap(st.user.password)
             found == ScanMechanisms(mechanisms)
             channel_binding == StreamChannelBinding(tls_unique, tls_server_end_point)
         IN  IF found = None THEN Failed(encode_error)
             ELSE LET chosen == SelectMechanism(Unwrap(found).has_scram,
                                                Unwrap(found).has_scram_plus,
                                                channel_binding)
                  IN  IF chosen = None
                      THEN Failed(Err("io", "unsupported SASL authentication"))
                      ELSE IF ~rng_ok THEN Failed(Err("io", "scram"))
                      ELSE LET scram == ScramSha256_new(pass, Unwrap(chosen).channel_binding)
                           IN  [state |-> "SendingSasl",
                                future |-> sasl_initial_response(Unwrap(chosen).mechanism,
                                                                 scram.message),
                                stream |-> st.stream, scram |-> scram]

PasswordRequest(st, output) ==
    LET buf == password_message(output)
    IN  IF buf = None THEN Failed(encode_error)
        ELSE [state |-> "SendingPassword", future |-> Unwrap(buf), stream |-> st.stream]

\* The state poll_reading_auth and poll_reading_auth_completion move to on
\* AuthenticationOk.
EnterReadingInfo(st) ==
    [state |-> "ReadingInfo", stream |-> st.stream, cancel_data |-> None,
     parameters |-> <<>>]

\* AfterReadingAuth that answers a cleartext request with an empty password
\* when none is configured.
AfterReadingAuth_empty_password(st, message, tls_unique, tls_server_end_point, rng_ok) ==
    IF message = ReadError THEN Failed(io_error)
    ELSE IF message = AuthenticationOk THEN EnterReadingInfo(st)
    ELSE IF message = AuthenticationCleartextPassword
    THEN IF st.user.password = None THEN PasswordRequest(st, Raw(""))
         ELSE PasswordRequest(st, Raw(Unwrap(st.user.password)))
    ELSE IF message.type = "AuthenticationMd5Password"
    THEN IF st.user.password = None THEN Failed(missing_password)
         ELSE PasswordRequest(st, md5_hash(st.user.name, Unwrap(st.user.password),
                                           message.salt))
    ELSE IF message.type = "AuthenticationSasl"
    THEN AuthenticationSaslRequest(st, message.mechanisms, tls_unique,
                                   tls_server_end_point, rng_ok)
    ELSE IF message.type \in LegacyAuthTypes
    THEN Failed(Err("io", "unsupported authentication method"))
    ELSE IF message.type = "ErrorResponse" THEN Failed(Err("db", message.body))
    ELSE IF message = EndOfStream THEN Failed(disconnected)
    ELSE Failed(bad_response)

\* poll_reading_auth on the message read.
AfterReadingAuth(st, message, tls_unique, tls_server_end_point, rng_ok) ==
    IF message = ReadError THEN Failed(io_error)
    ELSE IF message = AuthenticationOk THEN EnterReadingInfo(st)
    ELSE IF message = AuthenticationCleartextPassword
    THEN IF st.user.password = None THEN Failed(missing_password)
         ELSE PasswordRequest(st, Raw(Unwrap(st.user.password)))
    ELSE IF message.type = "AuthenticationMd5Password"
    THEN IF st.user.password = None THEN Failed(missing_password)
         ELSE PasswordRequest(st, md5_hash(st.user.name, Unwrap(st.user.password),
                                           message.salt))
    ELSE IF message.type = "AuthenticationSasl"
    THEN AuthenticationSaslRequest(st, message.mechanisms, tls_unique,
                                   tls_server_end_point, rng_ok)
    ELSE IF message.type \in LegacyAuthTypes
    THEN Failed(Err("io", "unsupported authentication method"))
    ELSE IF message.type = "ErrorResponse" THEN Failed(Err("db", message.body))
    ELSE IF message = EndOfStream THEN Failed(disconnected)
    ELSE Failed(bad_response)

\* poll_sending_password, once the send is flushed or has failed.
AfterSendingPassword(st, flushed) ==
    IF ~flushed THEN Failed(io_error)
    ELSE [state |-> "ReadingAuthCompletion", stream |-> st.stream]

\* poll_sending_sasl, once the send is flushed or has failed.
AfterSendingSasl(st, flushed) ==
    IF ~flushed THEN Failed(io_error)
    ELSE [state |-> "ReadingSasl", stream |-> st.stream, scram |-> st.scram]

\* AfterReadingSasl that answers a Continue whatever the engine made of it.
AfterReadingSasl_ignores_rejection(st, message, engine_ok) ==
    IF message = ReadError THEN Failed(io_error)
    ELSE IF message.type = "AuthenticationSaslContinue"
    THEN LET scram == IF engine_ok THEN ScramSha256_update(st.scram) ELSE st.scram
         IN  [state |-> "SendingSasl", future |-> sasl_response(scram.message),
              stream |-> st.stream, scram |-> scram]
    ELSE IF message.type = "AuthenticationSaslFinal"
    THEN IF ~engine_ok THEN Failed(Err("io", "scram"))
         ELSE [state |-> "ReadingAuthCompletion", stream |-> st.stream]
    ELSE IF message.type = "ErrorResponse" THEN Failed(Err("db", message.body))
    ELSE IF message = EndOfStream THEN Failed(disconnected)
    ELSE Failed(bad_response)

\* AfterReadingSasl that takes a verified Final for the end of authentication.
AfterReadingSasl_final_is_ok(st, message, engine_ok) ==
    IF message = ReadError THEN Failed(io_error)
    ELSE IF message.type = "AuthenticationSaslContinue"
    THEN IF ~engine_ok THEN Failed(Err("io", "scram"))
         ELSE LET scram == ScramSha256_update(st.scram)
              IN  [state |-> "SendingSasl", future |-> sasl_response(scram.message),
                   stream |-> st.stream, scram |-> scram]
    ELSE IF message.type = "AuthenticationSaslFinal"
    THEN IF ~engine_ok THEN Failed(Err("io", "scram"))
         ELSE EnterReadingInfo(st)
    ELSE IF message.type = "ErrorResponse" THEN Failed(Err("db", message.body))
    ELSE IF message = EndOfStream THEN Failed(disconnected)
    ELSE Failed(bad_response)

\* AfterReadingSasl that skips a notice, as ReadingInfo does.
AfterReadingSasl_skips_notices(st, message, engine_ok) ==
    IF message = ReadError THEN Failed(io_error)
    ELSE IF message.type = "AuthenticationSaslContinue"
    THEN IF ~engine_ok THEN Failed(Err("io", "scram"))
         ELSE LET scram == ScramSha256_update(st.scram)
              IN  [state |-> "SendingSasl", future |-> sasl_response(scram.message),
                   stream |-> st.stream, scram |-> scram]
    ELSE IF message.type = "AuthenticationSaslFinal"
    THEN IF ~engine_ok THEN Failed(Err("io", "scram"))
         ELSE [state |-> "ReadingAuthCompletion", stream |-> st.stream]
    ELSE IF message.type = "ErrorResponse" THEN Failed(Err("db", message.body))
    ELSE IF message = NoticeResponse THEN st
    ELSE IF message = EndOfStream THEN Failed(disconnected)
    ELSE Failed(bad_response)

\* poll_reading_sasl on the message read; engine_ok is the engine's verdict
\* on the data of a Continue (update) or Final (finish) message.
AfterReadingSasl(st, message, engine_ok) ==
    IF message = ReadError THEN Failed(io_error)
    ELSE IF message.type = "AuthenticationSaslContinue"
    THEN IF ~engine_ok THEN Failed(Err("io", "scram"))
         ELSE LET scram == ScramSha256_update(st.scram)
              IN  [state |-> "SendingSasl", future |-> sasl_response(scram.message),
                   stream |-> st.stream, scram |-> scram]
    ELSE IF message.type = "AuthenticationSaslFinal"
    THEN IF ~engine_ok THEN Failed(Err("io", "scram"))
         ELSE [state |-> "ReadingAuthCompletion", stream |-> st.stream]
    ELSE IF message.type = "ErrorResponse" THEN Failed(Err("db", message.body))
    ELSE IF message = EndOfStream THEN Failed(disconnected)
    ELSE Failed(bad_response)

\* AfterReadingAuthCompletion that answers a second cleartext request.
AfterReadingAuthCompletion_answers_again(st, message) ==
    IF message = ReadError THEN Failed(io_error)
    ELSE IF message = AuthenticationOk THEN EnterReadingInfo(st)
    ELSE IF message = AuthenticationCleartextPassword THEN PasswordRequest(st, Raw("p"))
    ELSE IF message.type = "ErrorResponse" THEN Failed(Err("db", message.body))
    ELSE IF message = EndOfStream THEN Failed(disconnected)
    ELSE Failed(bad_response)

\* AfterReadingAuthCompletion that lets a NoticeResponse through as well.
AfterReadingAuthCompletion_lenient(st, message) ==
    IF message = ReadError THEN Failed(io_error)
    ELSE IF message \in {AuthenticationOk, NoticeResponse} THEN EnterReadingInfo(st)
    ELSE IF message.type = "ErrorResponse" THEN Failed(Err("db", message.body))
    ELSE IF message = EndOfStream THEN Failed(disconnected)
    ELSE Failed(bad_response)

\* poll_reading_auth_completion on the message read.
AfterReadingAuthCompletion(st, message) ==
    IF message = ReadError THEN Failed(io_error)
    ELSE IF message = AuthenticationOk THEN EnterReadingInfo(st)
    ELSE IF message.type = "ErrorResponse" THEN Failed(Err("db", message.body))
    ELSE IF message = EndOfStream THEN Failed(disconnected)
    ELSE Failed(bad_response)

(* ------------------------------ ReadingInfo ---------------------------- *)

CancelData(process_id, secret_key) == [process_id |-> process_id, secret_key |-> secret_key]

\* Insert that keeps the value of a key already present.
Insert_keeps_first(map, key, value) ==
    [k \in DOMAIN map \cup {key} |-> IF k \in DOMAIN map THEN map[k] ELSE value]

\* HashMap::insert: the entry of key is set, the others are kept.
Insert(map, key, value) ==
    [k \in DOMAIN map \cup {key} |-> IF k = key THEN value ELSE map[k]]

\* OnBackendKeyData that stores only when nothing is stored yet.
OnBackendKeyData_keeps_first(st, body) ==
    IF IsSome(st.cancel_data) THEN st
    ELSE [st EXCEPT !.cancel_data = Some(CancelData(body.process_id, body.secret_key))]

\* OnBackendKeyData with the two fields crossed.
OnBackendKeyData_crossed(st, body) ==
    [st EXCEPT !.cancel_data = Some(CancelData(body.secret_key, body.process_id))]

\* The BackendKeyData arm of poll_reading_info.
OnBackendKeyData(st, body) ==
    [st EXCEPT !.cancel_data = Some(CancelData(body.process_id, body.secret_key))]

\* The ParameterStatus arm of poll_reading_info.
OnParameterStatus(st, body) ==
    IF body.name = BadUtf8 \/ body.value = BadUtf8 THEN Failed(encode_error)
    ELSE [st EXCEPT !.parameters = Insert(st.parameters, body.name, body.value)]

\* OnReadyForQuery with a default in place of the missing-data error.
OnReadyForQuery_defaults(st) ==
    [state |-> "Finished",
     client |-> [sender |-> "channel"],
     connection |-> [stream |-> st.stream,
                     cancel_data |-> IF st.cancel_data = None THEN CancelData(0, 0)
                                     ELSE Unwrap(st.cancel_data),
                     parameters |-> st.parameters, receiver |-> "channel"]]

\* The ReadyForQuery arm of poll_reading_info.
OnReadyForQuery(st) ==
    IF st.cancel_data = None
    THEN Failed(Err("io", "BackendKeyData message missing"))
    ELSE [state |-> "Finished",
          client |-> [sender |-> "channel"],
          connection |-> [stream |-> st.stream, cancel_data |-> Unwrap(st.cancel_data),
                          parameters |-> st.parameters, receiver |-> "channel"]]

\* AfterReadingInfo with ErrorResponse skipped like a notice.
AfterReadingInfo_skips_errors(st, message) ==
    IF message = ReadError THEN Failed(io_error)
    ELSE IF message.type = "BackendKeyData" THEN OnBackendKeyData(st, message)
    ELSE IF message.type = "ParameterStatus" THEN OnParameterStatus(st, message)
    ELSE IF message = ReadyForQuery THEN OnReadyForQuery(st)
    ELSE IF message.type = "ErrorResponse" THEN st
    ELSE IF message = NoticeResponse THEN st
    ELSE IF message = EndOfStream THEN Failed(disconnected)
    ELSE Failed(bad_response)

\* One turn of the loop of poll_reading_info on the message read.
AfterReadingInfo(st, message) ==
    IF message = ReadError THEN Failed(io_error)
    ELSE IF message.type = "BackendKeyData" THEN OnBackendKeyData(st, message)
    ELSE IF message.type = "ParameterStatus" THEN OnParameterStatus(st, message)
    ELSE IF message = ReadyForQuery THEN OnReadyForQuery(st)
    ELSE IF message.type = "ErrorResponse" THEN Failed(Err("db", message.body))
    ELSE IF message = NoticeResponse THEN st
    ELSE IF message = EndOfStream THEN Failed(disconnected)
    ELSE Failed(bad_response)

(* ------------------------------- histories ----------------------------- *)

\* The state machine moves to next; a state entered is added to the trace.
Advance(next) ==
    /\ hs' = next
    /\ trace' = IF next.state = hs.state THEN trace ELSE Append(trace, next.state)

\* What a read adds to the log of what the server did: the message, or the
\* end of the stream; nothing when the read failed.
Read(message) ==
    received' = IF message = ReadError THEN received ELSE Append(received, message)

\* What a write adds to the log of what went on the wire: the type of the
\* message in the future's buffer, if any of it went out.
Write(onwire) ==
    sent' = IF onwire THEN Append(sent, hs.future.type) ELSE sent

\* Whether poll_reading_auth gets as far as asking the stream for its
\* channel-binding material: on AuthenticationSasl, with a password and a
\* mechanism list that decodes.
AsksForChannelBinding(st, message) ==
    /\ message.type = "AuthenticationSasl"
    /\ IsSome(st.user.password)
    /\ IsSome(ScanMechanisms(message.mechanisms))

\* The messages received since ReadingInfo was entered: those after the
\* first AuthenticationOk.
InfoLog ==
    LET oks == {i \in 1..Len(received) : received[i] = AuthenticationOk}
    IN  IF oks = {} THEN <<>>
        ELSE LET first == CHOOSE i \in oks : \A j \in oks : i <= j
             IN  SubSeq(received, first + 1, Len(received))

(* -------------------------------- actions ------------------------------ *)

Init ==
    /\ tls \in TlsModes
    /\ \E p \in ConnectParamsSet : hs = [state |-> "Start", params |-> p, tls |-> tls]
    /\ sent = <<>>
    /\ received = <<>>
    /\ trace = <<"Start">>
    /\ queried = None

poll_start ==
    /\ hs.state = "Start"
    /\ \E connected \in BOOLEAN : Advance(AfterStart(hs, connected))
    /\ UNCHANGED <<tls, sent, received, queried>>

poll_sending_ssl ==
    /\ hs.state = "SendingSsl"
    /\ \E written \in BOOLEAN, onwire \in BOOLEAN :
          /\ written => onwire
          /\ Advance(AfterSendingSsl(hs, written))
          /\ Write(onwire)
    /\ UNCHANGED <<tls, received, queried>>

poll_reading_ssl ==
    /\ hs.state = "ReadingSsl"
    /\ \E buf \in {None, Some("S"), Some("N"), Some("E")} :
          /\ Advance(AfterReadingSsl(hs, buf))
          /\ received' = IF buf = None THEN received
                         ELSE Append(received, [type |-> "SslResponse", byte |-> Unwrap(buf)])
    /\ UNCHANGED <<tls, sent, queried>>

poll_connecting_tls ==
    /\ hs.state = "ConnectingTls"
    /\ \E upgraded \in BOOLEAN : Advance(AfterConnectingTls(hs, upgraded))
    /\ UNCHANGED <<tls, sent, received, queried>>

poll_building_startup ==
    /\ hs.state = "BuildingStartup"
    /\ Advance(AfterBuildingStartup(hs))
    /\ UNCHANGED <<tls, sent, received, queried>>

poll_sending_startup ==
    /\ hs.state = "SendingStartup"
    /\ \E flushed \in BOOLEAN, onwire \in BOOLEAN :
          /\ flushed => onwire
          /\ Advance(AfterSendingStartup(hs, flushed))
          /\ Write(onwire)
    /\ UNCHANGED <<tls, received, queried>>

poll_reading_auth ==
    /\ hs.state = "ReadingAuth"
    /\ \E message \in BackendMessages,
          tls_unique \in {None, Some("unique")},
          tls_server_end_point \in {None, Some("end-point")},
          rng_ok \in BOOLEAN :
          /\ Advance(AfterReadingAuth(hs, message, tls_unique, tls_server_end_point, rng_ok))
          /\ Read(message)
          /\ queried' = IF AsksForChannelBinding(hs, message)
                        THEN Some([tls_unique |-> tls_unique,
                                   tls_server_end_point |-> tls_server_end_point])
                        ELSE queried
    /\ UNCHANGED <<tls, sent>>

poll_sending_password ==
    /\ hs.state = "SendingPassword"
    /\ \E flushed \in BOOLEAN, onwire \in BOOLEAN :
          /\ flushed => onwire
          /\ Advance(AfterSendingPassword(hs, flushed))
          /\ Write(onwire)
    /\ UNCHANGED <<tls, received, queried>>

poll_sending_sasl ==
    /\ hs.state = "SendingSasl"
    /\ \E flushed \in BOOLEAN, onwire \in BOOLEAN :
          /\ flushed => onwire
          /\ Advance(AfterSendingSasl(hs, flushed))
          /\ Write(onwire)
    /\ UNCHANGED <<tls, received, queried>>

poll_reading_sasl ==
    /\ hs.state = "ReadingSasl"
    /\ \E message \in BackendMessages, engine_ok \in BOOLEAN :
          /\ message.type = "AuthenticationSaslContinue" /\ engine_ok
                => hs.scram.updates < MaxSaslRounds
          /\ Advance(AfterReadingSasl(hs, message, engine_ok))
          /\ Read(message)
          /\ queried' = IF AfterReadingSasl(hs, message, engine_ok).state = "ReadingAuthCompletion"
                        THEN None ELSE queried
    /\ UNCHANGED <<tls, sent>>

poll_reading_auth_completion ==
    /\ hs.state = "ReadingAuthCompletion"
    /\ \E message \in BackendMessages :
          /\ Advance(AfterReadingAuthCompletion(hs, message))
          /\ Read(message)
    /\ UNCHANGED <<tls, sent, queried>>

poll_reading_info ==
    /\ hs.state = "ReadingInfo"
    /\ \E message \in InfoPhaseMessages :
          /\ message \in InfoMessages => Len(InfoLog) < MaxInfoMsgs
          /\ Advance(AfterReadingInfo(hs, message))
          /\ Read(message)
    /\ UNCHANGED <<tls, sent, queried>>

Next ==
    \/ poll_start
    \/ poll_sending_ssl
    \/ poll_reading_ssl
    \/ poll_connecting_tls
    \/ poll_building_startup
    \/ poll_sending_startup
    \/ poll_reading_auth
    \/ poll_sending_password
    \/ poll_sending_sasl
    \/ poll_reading_sasl
    \/ poll_reading_auth_completion
    \/ poll_reading_info

Spec == Init /\ [][Next]_vars

\* The handshake polled for as long as it is not done, every read and write
\* it waits for completing in the end.
FairSpec == Init /\ [][Next]_vars /\ WF_vars(Next)

(* ------------------------------ properties ----------------------------- *)

Last(seq) == seq[Len(seq)]

Entered(state) == \E i \in 1..Len(trace) : trace[i] = state

Sent(type) == \E i \in 1..Len(sent) : sent[i] = type

Received(message) == \E i \in 1..Len(received) : received[i] = message

\* The state carries a Client/Connection pair.
HasPair(st) == "client" \in DOMAIN st /\ "connection" \in DOMAIN st

\* C1: no half-authenticated handle. Finished is entered only from ReadingInfo,
\* on a ReadyForQuery message; ReadingInfo is entered only on an
\* AuthenticationOk message, read in ReadingAuth or, after a password or SASL
\* exchange, in ReadingAuthCompletion; only Finished carries a
\* Client/Connection pair, so a run that ends in Failed has produced none.
C1_NoHalfAuthenticatedHandle ==
    [][/\ (hs'.state = "Finished" /\ hs.state # "Finished")
            => (hs.state = "ReadingInfo" /\ received' = Append(received, ReadyForQuery))
       /\ (hs'.state = "ReadingInfo" /\ hs.state # "ReadingInfo")
            => /\ received' = Append(received, AuthenticationOk)
               /\ \/ hs.state = "ReadingAuth"
                  \/ /\ hs.state = "ReadingAuthCompletion"
                     /\ Sent("PasswordMessage") \/ Sent("SaslInitialResponse")
       /\ HasPair(hs') <=> hs'.state = "Finished"
       /\ hs'.state = "Failed" => DOMAIN hs' = {"state", "error"}]_vars

\* A handshake that finished after authenticating with a password or SASL.
C1_Witness == hs.state = "Finished" /\ Entered("ReadingAuthCompletion")

\* C2: with TLS mode None no SSL request is ever written: Start moves
\* straight to BuildingStartup when the connect completes (or to Failed when
\* it fails), and SendingSsl, ReadingSsl and ConnectingTls are never entered.
C2_NoneNeverNegotiates ==
    tls = "None" =>
        /\ ~Sent("SslRequest")
        /\ ~Entered("SendingSsl") /\ ~Entered("ReadingSsl") /\ ~Entered("ConnectingTls")
        /\ Len(trace) >= 2 => trace[2] \in {"BuildingStartup", "Failed"}
        /\ hs.state = "BuildingStartup" => (trace = <<"Start", "BuildingStartup">> /\ ~hs.stream.tls)

\* Mode None got as far as reading the server's answer to the startup message.
C2_Witness == tls = "None" /\ hs.state = "ReadingAuth" /\ sent = <<"StartupMessage">>

\* The server's one-byte answer to the SSL request.
SslResponse(byte) == [type |-> "SslResponse", byte |-> byte]

\* C3: with TLS mode Require, once the server has declined the SSL request
\* with 'N' the handshake is Failed with a TLS error, and no startup message
\* was built or sent on that run.
C3_RequireDeclinedFails ==
    (tls = "Require" /\ Received(SslResponse("N"))) =>
        /\ hs = Failed(Err("tls", "TLS was required but not supported"))
        /\ ~Sent("StartupMessage")
        /\ ~Entered("BuildingStartup") /\ ~Entered("SendingStartup")

\* Mode Require, and the server has answered 'N'.
C3_Witness ==
    /\ tls = "Require" /\ received = <<SslResponse("N")>>
    /\ trace = <<"Start", "SendingSsl", "ReadingSsl", "Failed">>

\* The BackendKeyData messages among those received in ReadingInfo.
KeyDataReceived == SelectSeq(InfoLog, LAMBDA m : m.type = "BackendKeyData")

\* ReadyForQuery was read in ReadingInfo: it ends the state, so it is the
\* last message of a run that entered it.
ReadyInReadingInfo ==
    Entered("ReadingInfo") /\ received # <<>> /\ Last(received) = ReadyForQuery

\* C4: ReadyForQuery read in ReadingInfo with no BackendKeyData read since
\* the state was entered ends the handshake Failed with the missing-data
\* error, never Finished; the CancelData of a Finished state is that of a
\* BackendKeyData message the server sent in ReadingInfo.
C4_ReadyNeedsKeyData ==
    /\ (ReadyInReadingInfo /\ KeyDataReceived = <<>>)
          => hs = Failed(Err("io", "BackendKeyData message missing"))
    /\ hs.state = "Finished"
          => \E i \in 1..Len(KeyDataReceived) :
                hs.connection.cancel_data =
                    CancelData(KeyDataReceived[i].process_id, KeyDataReceived[i].secret_key)

\* ReadyForQuery came after parameters only, with no key data.
C4_Witness ==
    /\ ReadyInReadingInfo /\ KeyDataReceived = <<>> /\ Len(InfoLog) >= 2
    /\ hs.state = "Failed"

\* The CancelData of a BackendKeyData message.
CancelDataOf(body) == CancelData(body.process_id, body.secret_key)

\* The CancelData held: in ReadingInfo the stored option, in Finished the
\* one handed to the Connection.
StoredCancelData ==
    IF hs.state = "Finished" THEN Some(hs.connection.cancel_data) ELSE hs.cancel_data

\* C5 as stated: the stored CancelData is assigned at most once, a later
\* BackendKeyData message never replacing the value stored from an earlier
\* one, so what is stored is the CancelData of the first such message.
C5_AssignedAtMostOnce ==
    hs.state \in {"ReadingInfo", "Finished"} =>
        StoredCancelData = IF KeyDataReceived = <<>> THEN None
                           ELSE Some(CancelDataOf(KeyDataReceived[1]))

\* C5, amended: the stored CancelData is assigned once for each
\* BackendKeyData message read in ReadingInfo, a later message replacing the
\* value stored from an earlier one: it is absent until the first such
\* message and is then the CancelData of the last one read; at least one was
\* read on every run that reaches Finished, and the Connection gets the last.
C5_LastKeyDataWins ==
    hs.state \in {"ReadingInfo", "Finished"} =>
        /\ StoredCancelData = IF KeyDataReceived = <<>> THEN None
                              ELSE Some(CancelDataOf(Last(KeyDataReceived)))
        /\ hs.state = "Finished" => Len(KeyDataReceived) >= 1

\* Finished after two BackendKeyData messages that differ.
C5_Witness ==
    /\ hs.state = "Finished" /\ Len(KeyDataReceived) = 2
    /\ KeyDataReceived[1] # KeyDataReceived[2]

\* The ParameterStatus messages among those received in ReadingInfo.
StatusReceived == SelectSeq(InfoLog, LAMBDA m : m.type = "ParameterStatus")

\* The parameter map held: in ReadingInfo the map being built, in Finished
\* the one handed to the Connection.
StoredParameters ==
    IF hs.state = "Finished" THEN hs.connection.parameters ELSE hs.parameters

\* C6: the parameter map is empty when ReadingInfo is entered and holds, in
\* ReadingInfo and when handed to the Connection in Finished, exactly the
\* names of the ParameterStatus messages received, each with the value of the
\* last message that named it.
C6_LastParameterWins ==
    hs.state \in {"ReadingInfo", "Finished"} =>
        /\ DOMAIN StoredParameters = {StatusReceived[i].name : i \in 1..Len(StatusReceived)}
        /\ \A i \in 1..Len(StatusReceived) :
              (\A j \in (i + 1)..Len(StatusReceived) :
                  StatusReceived[j].name # StatusReceived[i].name)
              => StoredParameters[StatusReceived[i].name] = StatusReceived[i].value
        /\ InfoLog = <<>> => StoredParameters = <<>>

\* Finished after two values for one name.
C6_Witness ==
    /\ hs.state = "Finished"
    /\ StatusReceived = <<ParameterStatus("server_version", "14.2"),
                          ParameterStatus("server_version", "9.6")>>

\* A message was read in this step.
ReadNow == received' # received

\* The names a mechanism list advertises.
Advertised(mechanisms) == {mechanisms[i] : i \in 1..Len(mechanisms)}

\* The binding the table of C7 asks for, from what the server advertises and
\* what the stream has: the mechanism and the tag, with the bytes bound.
TableEntry(advertised, material) ==
    LET available == IsSome(material.tls_unique) \/ IsSome(material.tls_server_end_point)
        bytes == IF IsSome(material.tls_unique)
                 THEN [tag |-> "tls-unique", data |-> Unwrap(material.tls_unique)]
                 ELSE [tag |-> "tls-server-end-point",
                       data |-> Unwrap(material.tls_server_end_point)]
    IN  IF SCRAM_SHA_256_PLUS \in advertised /\ available
        THEN [mechanism |-> SCRAM_SHA_256_PLUS, channel_binding |-> bytes]
        ELSE IF SCRAM_SHA_256_PLUS \in advertised
        THEN [mechanism |-> SCRAM_SHA_256, channel_binding |-> [tag |-> "unsupported", data |-> ""]]
        ELSE IF available
        THEN [mechanism |-> SCRAM_SHA_256, channel_binding |-> [tag |-> "unrequested", data |-> ""]]
        ELSE [mechanism |-> SCRAM_SHA_256, channel_binding |-> [tag |-> "unsupported", data |-> ""]]

\* C7: on AuthenticationSasl with a password present and a mechanism list
\* that decodes, the outcome is decided by the advertised set and the
\* stream's binding material alone. With SCRAM-SHA-256 or SCRAM-SHA-256-PLUS
\* advertised, the initial response names the mechanism of the table and the
\* engine is built with the table's binding (tls-unique before
\* tls-server-end-point), unless the engine cannot be built, which fails the
\* handshake; with neither advertised the handshake fails with the
\* unsupported-SASL error and nothing is sent.
C7_MechanismSelection ==
    [][(/\ hs.state = "ReadingAuth" /\ ReadNow
        /\ Last(received').type = "AuthenticationSasl"
        /\ IsSome(hs.user.password)
        /\ BadMechanism \notin Advertised(Last(received').mechanisms))
       => LET advertised == Advertised(Last(received').mechanisms)
              usable == advertised \cap {SCRAM_SHA_256, SCRAM_SHA_256_PLUS} # {}
          IN  /\ IsSome(queried')
              /\ sent' = sent
              /\ usable => \/ hs' = Failed(Err("io", "scram"))
                           \/ LET entry == TableEntry(advertised, Unwrap(queried'))
                              IN  /\ hs'.state = "SendingSasl"
                                  /\ hs'.future.type = "SaslInitialResponse"
                                  /\ hs'.future.mechanism = entry.mechanism
                                  /\ hs'.scram.channel_binding = entry.channel_binding
              /\ ~usable => hs' = Failed(Err("io", "unsupported SASL authentication"))]_vars

\* The PLUS variant chosen on a stream that has both kinds of material.
C7_Witness ==
    /\ hs.state = "SendingSasl" /\ hs.future.type = "SaslInitialResponse"
    /\ hs.future.mechanism = SCRAM_SHA_256_PLUS
    /\ queried = Some([tls_unique |-> Some("unique"),
                       tls_server_end_point |-> Some("end-point")])
    /\ hs.scram.channel_binding = [tag |-> "tls-unique", data |-> "unique"]

MessageStates == {"ReadingAuth", "ReadingSasl", "ReadingAuthCompletion", "ReadingInfo"}

\* C9: an ErrorResponse read in ReadingAuth, ReadingSasl,
\* ReadingAuthCompletion or ReadingInfo moves the handshake at once to Failed
\* with the server's error carrying the body of that message, writing
\* nothing; and no step is taken from Failed, so nothing is read or written
\* after it.
C9_ErrorResponseEnds ==
    [][/\ (hs.state \in MessageStates /\ ReadNow /\ Last(received').type = "ErrorResponse")
            => (hs' = Failed(Err("db", Last(received').body)) /\ sent' = sent)
       /\ hs.state # "Failed"]_vars

\* An ErrorResponse ended ReadingInfo after other messages.
C9_Witness ==
    /\ hs = Failed(Err("db", "53300")) /\ Entered("ReadingInfo")
    /\ Len(InfoLog) >= 2 /\ Last(received) = ErrorResponse("53300")

\* The server's side of the run of C10.
C10_ServerSequence ==
    <<SslResponse("N"), AuthenticationOk, BackendKeyData(42, 99),
      ParameterStatus("server_version", "14.2"), ReadyForQuery>>

\* C10: with TLS mode Prefer, when the server has sent 'N', AuthenticationOk,
\* BackendKeyData(42, 99), ParameterStatus(server_version, 14.2) and
\* ReadyForQuery, the handshake has gone through Start, SendingSsl,
\* ReadingSsl, BuildingStartup, SendingStartup, ReadingAuth and ReadingInfo
\* to Finished, with CancelData {42, 99} and parameters
\* {server_version: 14.2}, having written the SSL request and the startup
\* message and no password message.
C10_PreferDeclinedTrustRun ==
    (tls = "Prefer" /\ received = C10_ServerSequence) =>
        /\ trace = <<"Start", "SendingSsl", "ReadingSsl", "BuildingStartup",
                     "SendingStartup", "ReadingAuth", "ReadingInfo", "Finished">>
        /\ hs.state = "Finished"
        /\ hs.connection.cancel_data = [process_id |-> 42, secret_key |-> 99]
        /\ hs.connection.parameters = [name \in {"server_version"} |-> "14.2"]
        /\ ~hs.connection.stream.tls
        /\ sent = <<"SslRequest", "StartupMessage">>

\* The server's side of the run of C10 has been read, under mode Prefer.
C10_Witness == tls = "Prefer" /\ received = C10_ServerSequence

PasswordRequests ==
    {"AuthenticationCleartextPassword", "AuthenticationMd5Password", "AuthenticationSasl"}

CredentialMessages == {"PasswordMessage", "SaslInitialResponse", "SaslResponse"}

\* C11: when the server asks in ReadingAuth for a cleartext password, an MD5
\* password or SASL and the user has no password, the handshake fails at once
\* with the missing-password error, and no password or SASL message is or was
\* written; on AuthenticationOk a user without a password moves to
\* ReadingInfo.
C11_MissingPassword ==
    [][(hs.state = "ReadingAuth" /\ ReadNow /\ hs.user.password = None)
       => /\ Last(received').type \in PasswordRequests
               => /\ hs' = Failed(missing_password)
                  /\ sent' = sent
                  /\ \A t \in CredentialMessages : ~Sent(t)
          /\ Last(received') = AuthenticationOk
               => hs' = [state |-> "ReadingInfo", stream |-> hs.stream,
                         cancel_data |-> None, parameters |-> <<>>]]_vars

\* A password was asked of a user who has none.
C11_Witness ==
    /\ hs = Failed(missing_password)
    /\ Last(received) = AuthenticationMd5Password("salt")

\* C12: over a Unix-domain host no TLS upgrade is started. ConnectingTls is
\* entered only from ReadingSsl (the state of modes Prefer and Require), and
\* only for a Tcp host; when the server accepts the SSL request of a
\* Unix-domain host with 'S' the handshake fails at once with a TLS error, no
\* startup message having been built or written.
C12_NoTlsOverUnix ==
    [][/\ (hs'.state = "ConnectingTls" /\ hs.state # "ConnectingTls")
            => (hs.state = "ReadingSsl" /\ hs.params.host = "Tcp" /\ tls # "None")
       /\ hs'.state = "ConnectingTls" => hs'.params.host = "Tcp"
       /\ (hs.state = "ReadingSsl" /\ hs.params.host = "Unix" /\ ReadNow
            /\ Last(received') = SslResponse("S"))
            => /\ hs' = Failed(Err("tls", "TLS over unix sockets not supported"))
               /\ tls \in {"Prefer", "Require"}
               /\ ~Sent("StartupMessage") /\ sent' = sent
               /\ ~Entered("BuildingStartup") /\ ~Entered("ConnectingTls")]_vars

\* The server accepted the SSL request of a Unix-domain host.
C12_Witness ==
    /\ hs = Failed(Err("tls", "TLS over unix sockets not supported"))
    /\ received = <<SslResponse("S")>> /\ tls = "Prefer"

\* The transitions the state machine declares, apart from those to Failed.
DeclaredEdges ==
    {<<"Start", "BuildingStartup">>, <<"Start", "SendingSsl">>,
     <<"SendingSsl", "ReadingSsl">>,
     <<"ReadingSsl", "ConnectingTls">>, <<"ReadingSsl", "BuildingStartup">>,
     <<"ConnectingTls", "BuildingStartup">>,
     <<"BuildingStartup", "SendingStartup">>,
     <<"SendingStartup", "ReadingAuth">>,
     <<"ReadingAuth", "ReadingInfo">>, <<"ReadingAuth", "SendingPassword">>,
     <<"ReadingAuth", "SendingSasl">>,
     <<"SendingPassword", "ReadingAuthCompletion">>,
     <<"SendingSasl", "ReadingSasl">>,
     <<"ReadingSasl", "SendingSasl">>, <<"ReadingSasl", "ReadingAuthCompletion">>,
     <<"ReadingAuthCompletion", "ReadingInfo">>,
     <<"ReadingInfo", "Finished">>}

Count(seq, x) == Cardinality({i \in 1..Len(seq) : seq[i] = x})

\* C13: errors are terminal and nothing is retried. The trace ends in the
\* live state; each of its steps is a declared edge or a move to Failed;
\* Failed and Finished are never left; apart from SendingSasl and ReadingSasl
\* no state is entered twice, and the SSL request and the startup message
\* are each written at most once.
C13_DeclaredEdgesOnly ==
    /\ Last(trace) = hs.state
    /\ \A i \in 1..(Len(trace) - 1) :
          /\ trace[i] \notin {"Failed", "Finished"}
          /\ trace[i + 1] = "Failed" \/ <<trace[i], trace[i + 1]>> \in DeclaredEdges
    /\ \A i \in 1..Len(trace) :
          trace[i] \notin {"SendingSasl", "ReadingSasl"} => Count(trace, trace[i]) = 1
    /\ Count(sent, "SslRequest") <= 1
    /\ Count(sent, "StartupMessage") <= 1

\* A run that failed after going round the SASL pair twice.
C13_Witness ==
    /\ hs.state = "Failed" /\ Count(trace, "ReadingSasl") = 2
    /\ Count(sent, "SslRequest") = 1 /\ Count(sent, "StartupMessage") = 1

CountType(seq, type) == Cardinality({i \in 1..Len(seq) : seq[i].type = type})

\* Something was written in this step.
WroteNow == sent' # sent

SendingStates == {"SendingSsl", "SendingStartup", "SendingPassword", "SendingSasl"}

\* C14: SASL messages answer server messages. The initial response is written
\* at most once, by the send built on AuthenticationSasl with a mechanism
\* chosen, and has been written whenever ReadingSasl is entered; a SASL
\* response is written only by the send built after the engine absorbed an
\* AuthenticationSaslContinue, so the responses written never outnumber the
\* Continue messages the engine accepted; a Continue the engine rejects
\* fails the handshake with nothing written; and a step either reads or
\* writes, the write being the one future a sending state holds.
C14_SaslAnswersOnly ==
    [][/\ Count(sent', "SaslInitialResponse") <= 1
       /\ (WroteNow /\ Last(sent') = "SaslInitialResponse")
            => /\ hs.state = "SendingSasl" /\ hs.scram.updates = 0
               /\ hs.future.mechanism \in {SCRAM_SHA_256, SCRAM_SHA_256_PLUS}
               /\ Last(received).type = "AuthenticationSasl"
       /\ (WroteNow /\ Last(sent') = "SaslResponse")
            => /\ hs.state = "SendingSasl"
               /\ Count(sent', "SaslResponse") <= hs.scram.updates
               /\ Last(received).type = "AuthenticationSaslContinue"
               /\ Count(sent, "SaslInitialResponse") = 1
       /\ (hs.state = "ReadingSasl" /\ ReadNow
            /\ Last(received').type = "AuthenticationSaslContinue")
            => /\ sent' = sent
               /\ \/ hs' = Failed(Err("io", "scram"))
                  \/ /\ hs'.state = "SendingSasl"
                     /\ hs'.future.type = "SaslResponse"
                     /\ hs'.scram.updates = hs.scram.updates + 1
       /\ hs'.state = "ReadingSasl"
            => /\ Count(sent', "SaslInitialResponse") = 1
               /\ Count(sent', "SaslResponse") = hs'.scram.updates
       /\ Count(sent', "SaslResponse") <= CountType(received', "AuthenticationSaslContinue")
       /\ ~(WroteNow /\ ReadNow)
       /\ WroteNow => hs.state \in SendingStates
       /\ "future" \in DOMAIN hs' <=> hs'.state \in SendingStates]_vars

\* The response to a Continue has been written.
C14_Witness ==
    /\ hs.state = "ReadingSasl" /\ hs.scram.updates = 1
    /\ Count(sent, "SaslResponse") = 1

\* The messages received from the server proper: those after the one-byte
\* answer to SSLRequest, if there was one.
ServerMessages ==
    IF received # <<>> /\ received[1].type = "SslResponse" THEN Tail(received) ELSE received

\* The server's side of a complete SCRAM-SHA-256 handshake.
ScramPath ==
    <<AuthenticationSasl(<<SCRAM_SHA_256>>), AuthenticationSaslContinue("server-first"),
      AuthenticationSaslFinal("server-final"), AuthenticationOk,
      BackendKeyData(42, 99), ReadyForQuery>>

\* ReadingSasl has just been left on an AuthenticationSaslFinal.
FinalInReadingSasl ==
    /\ received # <<>> /\ Last(received).type = "AuthenticationSaslFinal"
    /\ Len(trace) >= 2 /\ trace[Len(trace) - 1] = "ReadingSasl"
    /\ hs.state # "SendingSasl"

\* C15: SCRAM path. A run that reads the advertisement of SCRAM-SHA-256
\* alone, a Continue the engine accepts, a Final the engine verifies,
\* AuthenticationOk, BackendKeyData and ReadyForQuery is Finished, having
\* written the initial response and one response. A Final leads to
\* ReadingAuthCompletion or to Failed, never to ReadingInfo: ReadingInfo is
\* entered from ReadingAuth or ReadingAuthCompletion only, on
\* AuthenticationOk. A run that failed on a Final the engine did not verify
\* never entered ReadingAuthCompletion.
C15_ScramPath ==
    /\ ServerMessages = ScramPath
          => /\ hs.state = "Finished"
             /\ hs.connection.cancel_data = CancelData(42, 99)
             /\ Count(sent, "SaslInitialResponse") = 1 /\ Count(sent, "SaslResponse") = 1
    /\ FinalInReadingSasl
          => /\ ~Entered("ReadingInfo")
             /\ \/ hs.state = "ReadingAuthCompletion"
                \/ hs = Failed(Err("io", "scram")) /\ ~Entered("ReadingAuthCompletion")
    /\ \A i \in 1..(Len(trace) - 1) :
          /\ trace[i + 1] = "ReadingInfo" => trace[i] \in {"ReadingAuth", "ReadingAuthCompletion"}
          /\ trace[i] = "ReadingSasl"
                => trace[i + 1] \in {"SendingSasl", "ReadingAuthCompletion", "Failed"}
    /\ (Entered("ReadingSasl") /\ Entered("ReadingInfo"))
          => /\ Entered("ReadingAuthCompletion")
             /\ \E i \in 2..Len(received) :
                   /\ received[i] = AuthenticationOk
                   /\ received[i - 1].type = "AuthenticationSaslFinal"

C15_Witness ==
    /\ ServerMessages = ScramPath /\ hs.state = "Finished"

\* The engine refused the final message.
C15_WitnessUnverified ==
    /\ FinalInReadingSasl /\ hs.state = "Failed"

ReadingStates == {"ReadingAuth", "ReadingSasl", "ReadingAuthCompletion", "ReadingInfo"}

\* The message types each reading state has an arm for, ErrorResponse apart.
Accepted(state) ==
    CASE state = "ReadingAuth" ->
            {"AuthenticationOk", "AuthenticationCleartextPassword",
             "AuthenticationMd5Password", "AuthenticationSasl"}
      [] state = "ReadingSasl" -> {"AuthenticationSaslContinue", "AuthenticationSaslFinal"}
      [] state = "ReadingAuthCompletion" -> {"AuthenticationOk"}
      [] state = "ReadingInfo" ->
            {"BackendKeyData", "ParameterStatus", "ReadyForQuery", "NoticeResponse"}

\* C16: failure classification in the four message-reading states. The end
\* of the stream gives the disconnected error; in ReadingAuth a Kerberos V5,
\* SCM-credential, GSS or SSPI request gives the unsupported-authentication
\* error; any other message the state has no arm for, ErrorResponse apart,
\* gives the bad-response error; a NoticeResponse is skipped in ReadingInfo,
\* the state staying as it was, and is a bad response in the other three.
C16_FailureClassification ==
    [][(hs.state \in ReadingStates /\ ReadNow)
        => LET message == Last(received')
               legacy  == hs.state = "ReadingAuth" /\ message.type \in LegacyAuthTypes
           IN  /\ message = EndOfStream => hs' = Failed(disconnected)
               /\ legacy => hs' = Failed(Err("io", "unsupported authentication method"))
               /\ (/\ message.type \notin Accepted(hs.state) \cup {"ErrorResponse", "EndOfStream"}
                   /\ ~legacy)
                    => hs' = Failed(bad_response)
               /\ message = NoticeResponse
                    => IF hs.state = "ReadingInfo" THEN hs' = hs
                       ELSE hs' = Failed(bad_response)
               /\ hs' = Failed(bad_response)
                    => message.type \notin Accepted(hs.state) \cup {"ErrorResponse", "EndOfStream"}
               /\ hs' = Failed(disconnected) => message = EndOfStream]_vars

\* A notice during the SCRAM exchange was a bad response.
C16_Witness ==
    /\ hs = Failed(bad_response) /\ Last(received) = NoticeResponse
    /\ Len(trace) >= 2 /\ trace[Len(trace) - 1] = "ReadingSasl"

\* The stream the handshake holds, in the states that hold one.
HeldStream ==
    IF hs.state = "Finished" THEN Some(hs.connection.stream)
    ELSE IF "stream" \in DOMAIN hs THEN Some(hs.stream)
    ELSE None

\* C17: with TLS mode Require, BuildingStartup is entered only by the path
\* Start, SendingSsl, ReadingSsl, ConnectingTls, on the server's 'S' and a
\* completed upgrade, so every stream the handshake holds from then on is the
\* upgraded one, and the startup message and every password or SASL message
\* is written after the SSL request, by a run that went through
\* ConnectingTls.
C17_RequireMeansTls ==
    tls = "Require"
      => /\ Entered("BuildingStartup")
               => /\ Len(trace) >= 5
                  /\ SubSeq(trace, 1, 5) =
                        <<"Start", "SendingSsl", "ReadingSsl", "ConnectingTls", "BuildingStartup">>
                  /\ received[1] = SslResponse("S")
                  /\ sent[1] = "SslRequest"
         /\ IsSome(HeldStream) => Unwrap(HeldStream) = TlsStream
         /\ \A i \in 1..Len(sent) :
               sent[i] \in {"StartupMessage"} \cup CredentialMessages
                  => i > 1 /\ Entered("ConnectingTls") /\ Entered("BuildingStartup")

\* A password went out, and the handshake finished, under Require.
C17_Witness ==
    /\ tls = "Require" /\ hs.state = "Finished"
    /\ Sent("StartupMessage") /\ Sent("PasswordMessage")
    /\ hs.connection.stream = TlsStream

\* C18: at most one credential exchange per handshake. A password message is
\* written at most once, by the send built in ReadingAuth on the first
\* message of the server, a cleartext or MD5 request; an authentication
\* request read in ReadingAuthCompletion fails the handshake as a bad
\* response with nothing written; and a run never writes both a password
\* message and a SASL message.
C18_OneCredentialExchange ==
    [][/\ Count(sent', "PasswordMessage") <= 1
       /\ ~(Sent("PasswordMessage")' /\ (Sent("SaslInitialResponse") \/ Sent("SaslResponse"))')
       /\ (WroteNow /\ Last(sent') = "PasswordMessage")
            => /\ hs.state = "SendingPassword"
               /\ Len(ServerMessages) = 1
               /\ ServerMessages[1].type \in
                     {"AuthenticationCleartextPassword", "AuthenticationMd5Password"}
               /\ Count(trace, "ReadingAuth") = 1
       /\ (hs.state = "ReadingAuthCompletion" /\ ReadNow
            /\ Last(received').type \in PasswordRequests)
            => hs' = Failed(bad_response) /\ sent' = sent
       /\ hs.state = "ReadingAuthCompletion"
            => hs'.state \in {"ReadingAuthCompletion", "ReadingInfo", "Failed"}]_vars

\* A second request after the password was sent ended the handshake.
C18_Witness ==
    /\ hs = Failed(bad_response)
    /\ Len(trace) >= 2 /\ trace[Len(trace) - 1] = "ReadingAuthCompletion"
    /\ Count(sent, "PasswordMessage") = 1
    /\ Len(ServerMessages) = 2
    /\ ServerMessages[1] = AuthenticationCleartextPassword
    /\ ServerMessages[2] = AuthenticationMd5Password("salt")

unsupported_sasl == Err("io", "unsupported SASL authentication")

\* Neither SCRAM mechanism is in the list.
NoScram(mechanisms) ==
    \A i \in 1..Len(mechanisms) : mechanisms[i] \notin {SCRAM_SHA_256, SCRAM_SHA_256_PLUS}

\* C19: on AuthenticationSasl the password is looked at before the
\* mechanisms. Without a password the handshake fails with the
\* missing-password error whatever the server advertises, a list with no
\* usable mechanism or one that does not decode included, and the stream is
\* not asked for binding material; the unsupported-SASL error is given when,
\* and only when, a password is configured, the list decodes and neither
\* SCRAM-SHA-256 nor SCRAM-SHA-256-PLUS is in it, and by no other step.
C19_PasswordBeforeMechanisms ==
    [][/\ (hs.state = "ReadingAuth" /\ ReadNow /\ Last(received').type = "AuthenticationSasl")
            => LET mechanisms == Last(received').mechanisms
               IN  /\ hs.user.password = None
                        => hs' = Failed(missing_password) /\ queried' = queried
                   /\ hs' = Failed(unsupported_sasl)
                        <=> /\ IsSome(hs.user.password)
                            /\ NoScram(mechanisms)
                            /\ IsSome(ScanMechanisms(mechanisms))
       /\ (hs' = Failed(unsupported_sasl) /\ hs.state # "Failed")
            => /\ hs.state = "ReadingAuth" /\ ReadNow
               /\ Last(received').type = "AuthenticationSasl"]_vars

\* No password and nothing usable advertised: the password is what is missed.
C19_Witness ==
    /\ hs = Failed(missing_password)
    /\ Last(received) = AuthenticationSasl(<<"OTHER">>)
    /\ queried = None

\* A password and nothing usable advertised.
C19_WitnessUnsupported ==
    /\ hs = Failed(unsupported_sasl)
    /\ Last(received) = AuthenticationSasl(<<>>)

Done == hs.state \in {"Finished", "Failed"}

\* The messages ReadingInfo takes without leaving: notices and well-formed
\* parameter statuses.
KeepsReading ==
    {NoticeResponse, ParameterStatus("server_version", "14.2"),
     ParameterStatus("TimeZone", "GMT")}

\* C20: no internal timeout or message bound. When every read and write
\* completes in the end and the server sends finitely many messages and
\* closes the stream, the handshake ends in Finished or Failed. ReadingInfo
\* itself counts nothing: a NoticeResponse leaves the state as it was, a
\* ParameterStatus changes the parameter table only and a second copy of it
\* changes nothing, so a server that goes on sending them meets the same
\* ReadingInfo state each time and the handshake never leaves it.
C20_TerminationIsTheServers ==
    /\ <>Done
    /\ [](hs.state = "ReadingInfo"
            => \A message \in KeepsReading :
                  LET once == AfterReadingInfo(hs, message)
                  IN  /\ once.state = "ReadingInfo"
                      /\ once.cancel_data = hs.cancel_data /\ once.stream = hs.stream
                      /\ DOMAIN once = {"state", "stream", "cancel_data", "parameters"}
                      /\ AfterReadingInfo(once, message) = once
                      /\ message = NoticeResponse => once = hs)
    /\ [][(hs.state = "ReadingInfo" /\ ReadNow /\ Last(received') \in KeepsReading)
            => hs'.state = "ReadingInfo" /\ sent' = sent]_vars

\* ReadingInfo after as many notices as the server was allowed to send.
C20_Witness ==
    /\ hs.state = "ReadingInfo"
    /\ Len(InfoLog) = MaxInfoMsgs
    /\ \A i \in 1..Len(InfoLog) : InfoLog[i] = NoticeResponse
====
